---- MODULE Spec2Model ----
(***************************************************************************)
(* Model of server/seed-database.ts: environment validation, store         *)
(* provisioning, clear, generation, and the batch ingestion loop.          *)
(* One action per awaited call of seedDatabase and of the functions it     *)
(* calls; `calls` is the history of the external calls issued so far.      *)
(***************************************************************************)
EXTENDS Integers, Sequences, FiniteSets, TLC

\* ---------------------------------------------------------------- bounds
MaxItems == 4        \* longest generation response explored
MaxBatchSize == 3    \* largest batchSize explored for processBatch

\* ------------------------------------------------------ program constants
DefaultBatchSize == 3     \* the batch size seedDatabase passes
NumDimensions == 768      \* dimensionality of the vector index
ExitFailure == 1          \* process.exit status on missing settings

\* ------------------------------------------------------------ JSON values
\* A JSON leaf as the parser sees it: its runtime type and its value.
Str(s) == [t |-> "string", s |-> s, n |-> 0]
Num(n) == [t |-> "number", s |-> "", n |-> n]
Undef == [t |-> "undefined", s |-> "", n |-> 0]

IsString(v) == v.t = "string"
IsNumber(v) == v.t = "number"

Address == [street |-> Str("1 Main St"), city |-> Str("Oslo"), state |-> Str("OS"),
            postal_code |-> Str("0150"), country |-> Str("Norway")]

Review == [review_date |-> Str("2024-01-01"), rating |-> Num(5), comment |-> Str("ok")]

\* A candidate record of the generation response with the given id, name and
\* prices; the remaining fields are well-formed.
Candidate(id, name, full, sale) ==
  [item_id |-> id, item_name |-> name, item_description |-> Str("desc"),
   brand |-> Str("acme"), manufacturer_address |-> Address,
   prices |-> [full_price |-> full, sale_price |-> sale],
   categories |-> <<Str("chair"), Str("oak")>>,
   user_reviews |-> <<Review>>, notes |-> Str("n")]

GoodA == Candidate(Str("a"), Str("sofa"), Num(10), Num(8))
GoodB == Candidate(Str("b"), Str("desk"), Num(20), Num(20))
NegativePrice == Candidate(Str("a"), Str("lamp"), Num(0 - 5), Num(8))
MissingField == Candidate(Undef, Str("sofa"), Num(10), Num(8))
WrongType == Candidate(Str("b"), Str("desk"), Str("20"), Num(20))

Candidates == {GoodA, GoodB, NegativePrice, MissingField, WrongType}

\* itemSchema: every field required and of the declared type.
itemSchema(c) ==
  /\ IsString(c.item_id)
  /\ IsString(c.item_name)
  /\ IsString(c.item_description)
  /\ IsString(c.brand)
  /\ \A f \in DOMAIN c.manufacturer_address : IsString(c.manufacturer_address[f])
  /\ IsNumber(c.prices.full_price)
  /\ IsNumber(c.prices.sale_price)
  /\ \A n \in 1..Len(c.categories) : IsString(c.categories[n])
  /\ \A n \in 1..Len(c.user_reviews) :
       /\ IsString(c.user_reviews[n].review_date)
       /\ IsNumber(c.user_reviews[n].rating)
       /\ IsString(c.user_reviews[n].comment)
  /\ IsString(c.notes)

\* The generation response: text that is not a JSON array, or an array of
\* candidate records.
SeqsUpTo(S, n) == UNION {[1..m -> S] : m \in 0..n}
NotAnArray == [isArray |-> FALSE, elems |-> <<>>]
Responses == {NotAnArray} \cup {[isArray |-> TRUE, elems |-> e] : e \in SeqsUpTo(Candidates, MaxItems)}

\* parser = StructuredOutputParser.fromZodSchema(z.array(itemSchema)):
\* parser.parse succeeds iff the response is an array of schema-valid items.
parserAccepts(r) == r.isArray /\ \A n \in 1..Len(r.elems) : itemSchema(r.elems[n])

\* ---------------------------------------------------------------- summary
\* createItemSummary: the text is kept as the sequence of its parts, in the
\* order the template concatenates them.
createItemSummary(item) ==
  <<item.item_name.s, item.item_description.s, "from the brand", item.brand.s,
    "Manufacturer: Made in", item.manufacturer_address.country.s,
    "Categories:", [n \in 1..Len(item.categories) |-> item.categories[n].s],
    "Reviews:", [n \in 1..Len(item.user_reviews) |->
                    <<"Rated", item.user_reviews[n].rating.n, "on",
                      item.user_reviews[n].review_date.s, item.user_reviews[n].comment.s>>],
    "Price: At full price it costs:", item.prices.full_price.n,
    "USD, On sale it costs:", item.prices.sale_price.n, "USD",
    "Notes:", item.notes.s>>

\* The embedding the provider returns for a text.
Embed(text) == [numDimensions |-> NumDimensions, of |-> text]

\* The document fromDocuments writes for one item, without its _id.
StoredDocument(item) ==
  [embedding_text |-> createItemSummary(item),
   embedding |-> Embed(createItemSummary(item)),
   metadata |-> item]

WithId(doc, id) ==
  [_id |-> id, embedding_text |-> doc.embedding_text,
   embedding |-> doc.embedding, metadata |-> doc.metadata]

Content(d) ==
  [embedding_text |-> d.embedding_text, embedding |-> d.embedding, metadata |-> d.metadata]

\* -------------------------------------------------------- array helpers
Min(a, b) == IF a < b THEN a ELSE b

\* items.slice(start, end) with 0-based start and exclusive end.
sliceInclusiveEnd(s, start, end) ==
  [n \in 1..(Min(end + 1, Len(s)) - Min(start, Len(s))) |-> s[Min(start, Len(s)) + n]]

slice(s, start, end) ==
  [n \in 1..(Min(end, Len(s)) - Min(start, Len(s))) |-> s[Min(start, Len(s)) + n]]

\* Math.ceil(a / b) for a >= 0, b >= 1
Ceil(a, b) == (a + b - 1) \div b

RECURSIVE Flatten(_)
Flatten(ss) == IF ss = <<>> THEN <<>> ELSE Head(ss) \o Flatten(Tail(ss))

\* ------------------------------------------------------------ environment
requiredVars == <<"MONGODB_ATLAS_URI", "GOOGLE_API_KEY">>

\* A setting is absent, set to the empty string, or set.
EnvValues == {"absent", "empty", "set"}

\* !process.env[varName]
Falsy(v) == v \in {"absent", "empty"}

RECURSIVE filter(_, _)
filter(names, e) ==
  IF names = <<>> THEN <<>>
  ELSE (IF Falsy(e[Head(names)]) THEN <<Head(names)>> ELSE <<>>) \o filter(Tail(names), e)

missingVarsFirstOnly(e) == IF Falsy(e[requiredVars[1]]) THEN <<requiredVars[1]>> ELSE <<>>

missingVars(e) == filter(requiredVars, e)

\* ------------------------------------------------------------------ store
\* The store before the run: whether 'items' exists, its documents (left by
\* an earlier run), its indexes and its search indexes.
OldDoc(id, item) == WithId(StoredDocument(item), id)

InitialStores ==
  { [exists |-> FALSE, docs |-> <<>>, indexes |-> {}, searchIndexes |-> {}],
    [exists |-> TRUE, docs |-> <<>>, indexes |-> {}, searchIndexes |-> {}],
    [exists |-> TRUE, docs |-> <<OldDoc(1, GoodA)>>, indexes |-> {},
     searchIndexes |-> {"vector_index"}],
    [exists |-> TRUE, docs |-> <<OldDoc(1, GoodB), OldDoc(2, GoodA)>>,
     indexes |-> {"item_id_1"}, searchIndexes |-> {"vector_index"}] }

VARIABLES
  env,            \* process.env restricted to the required settings
  gcAvailable,    \* whether global.gc is defined
  gcRuns,         \* times global.gc() ran
  pc,             \* the statement the program is at
  exitCode,       \* status passed to process.exit, -1 while running
  diagnostic,     \* names listed by the missing-settings diagnostic
  connected,      \* client connection open
  collExists,     \* 'items' collection exists
  docs,           \* documents of 'items', in insertion order
  indexes,        \* indexes of 'items'
  searchIndexes,  \* search indexes of 'items'
  initialDocs,    \* the documents 'items' held before the run
  nextId,         \* next _id the driver assigns
  response,       \* the generation response last received
  syntheticData,  \* items returned by generateSyntheticData
  batchSize,      \* processBatch parameter
  i,              \* outer loop index of processBatch
  batch,          \* current slice
  j,              \* 1-based position in batch of the item being processed
  batches,        \* batches formed so far, in order
  vector,         \* embedding computed for the current item, awaiting the write
  outcome,        \* "Running", "Done", "Failed"
  errorsLogged,   \* times the top-level catch logged an error
  indexErrors,    \* times createVectorSearchIndex's catch logged an error
  closeRejected,  \* client.close() rejected
  calls           \* external calls completed so far: [op, k, ok]

vars == <<env, gcAvailable, gcRuns, pc, exitCode, diagnostic, connected, collExists, docs,
          indexes, searchIndexes, initialDocs, nextId, response, syntheticData,
          batchSize, i, batch, j, batches, vector, outcome, errorsLogged,
          indexErrors, closeRejected, calls>>

envVars == <<env, gcAvailable, batchSize, initialDocs>>
storeVars == <<collExists, docs, indexes, searchIndexes, nextId>>
loopVars == <<i, batch, j, batches, vector, gcRuns>>
exitVars == <<exitCode, diagnostic>>

NoVector == [numDimensions |-> 0, of |-> <<>>]

InitWith(sizes) ==
  /\ env \in [{requiredVars[1], requiredVars[2]} -> EnvValues]
  /\ gcAvailable \in BOOLEAN
  /\ gcRuns = 0
  /\ pc = "validate"
  /\ exitCode = 0 - 1
  /\ diagnostic = <<>>
  /\ connected = FALSE
  /\ \E st \in InitialStores :
       /\ collExists = st.exists
       /\ docs = st.docs
       /\ indexes = st.indexes
       /\ searchIndexes = st.searchIndexes
       /\ initialDocs = st.docs
       /\ nextId = Len(st.docs) + 1
  /\ response = NotAnArray
  /\ syntheticData = <<>>
  /\ batchSize \in sizes
  /\ i = 0
  /\ batch = <<>>
  /\ j = 0
  /\ batches = <<>>
  /\ vector = NoVector
  /\ outcome = "Running"
  /\ errorsLogged = 0
  /\ indexErrors = 0
  /\ closeRejected = FALSE
  /\ calls = <<>>

Init == InitWith({DefaultBatchSize})

Call(op, k, ok) == calls' = Append(calls, [op |-> op, k |-> k, ok |-> ok])

\* validateEnvironmentVariables, then module initialisation up to seedDatabase()
validateEnvironmentVariables ==
  /\ pc = "validate"
  /\ IF Len(missingVars(env)) > 0
       THEN /\ diagnostic' = missingVars(env)
            /\ exitCode' = ExitFailure
            /\ pc' = "exited"
       ELSE /\ pc' = "connect"
            /\ UNCHANGED exitVars
  /\ UNCHANGED <<envVars, storeVars, loopVars, connected, response, syntheticData,
                 outcome, errorsLogged, indexErrors, closeRejected, calls>>

\* catch (error) { console.error(...) } of seedDatabase: the error is logged and
\* control passes to the finally block.
ThrowWithoutFinally ==
  /\ outcome' = "Failed"
  /\ errorsLogged' = errorsLogged + 1
  /\ pc' = "finished"

Throw ==
  /\ outcome' = "Failed"
  /\ errorsLogged' = errorsLogged + 1
  /\ pc' = "close"

\* await client.connect()
Connect ==
  /\ pc = "connect"
  /\ \E ok \in BOOLEAN :
       /\ Call("connect", 0, ok)
       /\ IF ok
            THEN /\ connected' = TRUE
                 /\ pc' = "ping"
                 /\ UNCHANGED <<outcome, errorsLogged>>
            ELSE /\ Throw
                 /\ UNCHANGED connected
  /\ UNCHANGED <<envVars, storeVars, loopVars, exitVars, response, syntheticData,
                 indexErrors, closeRejected>>

\* await client.db("admin").command({ ping: 1 })
Ping ==
  /\ pc = "ping"
  /\ \E ok \in BOOLEAN :
       /\ Call("ping", 0, ok)
       /\ IF ok
            THEN /\ pc' = "listCollections"
                 /\ UNCHANGED <<outcome, errorsLogged>>
            ELSE Throw
  /\ UNCHANGED <<envVars, storeVars, loopVars, exitVars, connected, response,
                 syntheticData, indexErrors, closeRejected>>

\* setupDatabaseAndCollection: db.listCollections({ name: "items" }).toArray()
ListCollectionsAlwaysCreates ==
  /\ pc = "listCollections"
  /\ \E ok \in BOOLEAN :
       /\ Call("listCollections", 0, ok)
       /\ IF ok
            THEN /\ pc' = "createCollection"
                 /\ UNCHANGED <<outcome, errorsLogged>>
            ELSE Throw
  /\ UNCHANGED <<envVars, storeVars, loopVars, exitVars, connected, response,
                 syntheticData, indexErrors, closeRejected>>

ListCollections ==
  /\ pc = "listCollections"
  /\ \E ok \in BOOLEAN :
       /\ Call("listCollections", 0, ok)
       /\ IF ok
            THEN /\ pc' = IF collExists THEN "dropIndexes" ELSE "createCollection"
                 /\ UNCHANGED <<outcome, errorsLogged>>
            ELSE Throw
  /\ UNCHANGED <<envVars, storeVars, loopVars, exitVars, connected, response,
                 syntheticData, indexErrors, closeRejected>>

\* setupDatabaseAndCollection: db.createCollection("items")
CreateCollection ==
  /\ pc = "createCollection"
  /\ \E ok \in BOOLEAN :
       /\ Call("createCollection", 0, ok)
       /\ IF ok
            THEN /\ collExists' = TRUE
                 /\ pc' = "dropIndexes"
                 /\ UNCHANGED <<outcome, errorsLogged>>
            ELSE /\ Throw
                 /\ UNCHANGED collExists
  /\ UNCHANGED <<envVars, docs, indexes, searchIndexes, nextId, loopVars, exitVars,
                 connected, response, syntheticData, indexErrors, closeRejected>>

\* createVectorSearchIndex: collection.dropIndexes(), inside try/catch
DropIndexesUncaught ==
  /\ pc = "dropIndexes"
  /\ \E ok \in BOOLEAN :
       /\ Call("dropIndexes", 0, ok)
       /\ IF ok
            THEN /\ indexes' = {}
                 /\ pc' = "createSearchIndex"
                 /\ UNCHANGED <<outcome, errorsLogged>>
            ELSE /\ Throw
                 /\ UNCHANGED indexes
  /\ UNCHANGED <<envVars, collExists, docs, searchIndexes, nextId, loopVars, exitVars,
                 connected, response, syntheticData, indexErrors, closeRejected>>

DropIndexes ==
  /\ pc = "dropIndexes"
  /\ \E ok \in BOOLEAN :
       /\ Call("dropIndexes", 0, ok)
       /\ IF ok
            THEN /\ indexes' = {}
                 /\ pc' = "createSearchIndex"
                 /\ UNCHANGED indexErrors
            ELSE /\ indexErrors' = indexErrors + 1
                 /\ pc' = "deleteMany"
                 /\ UNCHANGED indexes
  /\ UNCHANGED <<envVars, collExists, docs, searchIndexes, nextId, loopVars, exitVars,
                 connected, response, syntheticData, outcome, errorsLogged,
                 closeRejected>>

\* createVectorSearchIndex: collection.createSearchIndex(vectorSearchIdx)
CreateSearchIndexSkipsClear ==
  /\ pc = "createSearchIndex"
  /\ \E ok \in BOOLEAN :
       /\ Call("createSearchIndex", 0, ok)
       /\ IF ok
            THEN /\ searchIndexes' = searchIndexes \cup {"vector_index"}
                 /\ UNCHANGED indexErrors
            ELSE /\ indexErrors' = indexErrors + 1
                 /\ UNCHANGED searchIndexes
  /\ pc' = "generate"
  /\ UNCHANGED <<envVars, collExists, docs, indexes, nextId, loopVars, exitVars,
                 connected, response, syntheticData, outcome, errorsLogged,
                 closeRejected>>

CreateSearchIndex ==
  /\ pc = "createSearchIndex"
  /\ \E ok \in BOOLEAN :
       /\ Call("createSearchIndex", 0, ok)
       /\ IF ok
            THEN /\ searchIndexes' = searchIndexes \cup {"vector_index"}
                 /\ UNCHANGED indexErrors
            ELSE /\ indexErrors' = indexErrors + 1
                 /\ UNCHANGED searchIndexes
  /\ pc' = "deleteMany"
  /\ UNCHANGED <<envVars, collExists, docs, indexes, nextId, loopVars, exitVars,
                 connected, response, syntheticData, outcome, errorsLogged,
                 closeRejected>>

\* await collection.deleteMany({})
DeleteManyKeepsDocuments ==
  /\ pc = "deleteMany"
  /\ \E ok \in BOOLEAN :
       /\ Call("deleteMany", 0, ok)
       /\ IF ok
            THEN /\ pc' = "generate"
                 /\ UNCHANGED <<docs, outcome, errorsLogged>>
            ELSE /\ Throw
                 /\ UNCHANGED docs
  /\ UNCHANGED <<envVars, collExists, indexes, searchIndexes, nextId, loopVars,
                 exitVars, connected, response, syntheticData, indexErrors,
                 closeRejected>>

DeleteMany ==
  /\ pc = "deleteMany"
  /\ \E ok \in BOOLEAN :
       /\ Call("deleteMany", 0, ok)
       /\ IF ok
            THEN /\ docs' = <<>>
                 /\ pc' = "generate"
                 /\ UNCHANGED <<outcome, errorsLogged>>
            ELSE /\ Throw
                 /\ UNCHANGED docs
  /\ UNCHANGED <<envVars, collExists, indexes, searchIndexes, nextId, loopVars,
                 exitVars, connected, response, syntheticData, indexErrors,
                 closeRejected>>

\* generateSyntheticData: llm.invoke(prompt) then parser.parse(response.content)
GenerateSyntheticDataSwallowsError ==
  /\ pc = "generate"
  /\ \/ /\ Call("generate", 0, FALSE)
        /\ pc' = "loop"
        /\ UNCHANGED <<response, syntheticData>>
     \/ \E r \in Responses :
          /\ response' = r
          /\ Call("generate", 0, parserAccepts(r))
          /\ syntheticData' = (IF parserAccepts(r) THEN r.elems ELSE <<>>)
          /\ pc' = "loop"
  /\ UNCHANGED <<envVars, storeVars, loopVars, exitVars, connected, indexErrors,
                 closeRejected, outcome, errorsLogged>>

GenerateSyntheticData ==
  /\ pc = "generate"
  /\ \/ /\ Call("generate", 0, FALSE)
        /\ Throw
        /\ UNCHANGED <<response, syntheticData>>
     \/ \E r \in Responses :
          /\ response' = r
          /\ Call("generate", 0, parserAccepts(r))
          /\ IF parserAccepts(r)
               THEN /\ syntheticData' = r.elems
                    /\ pc' = "loop"
                    /\ UNCHANGED <<outcome, errorsLogged>>
               ELSE /\ Throw
                    /\ UNCHANGED syntheticData
  /\ UNCHANGED <<envVars, storeVars, loopVars, exitVars, connected, indexErrors,
                 closeRejected>>

\* processBatch: the test i < items.length of the outer loop; when it holds the
\* next batch is sliced, otherwise processBatch returns, seedDatabase logs
\* completion and control passes to the finally block.
BatchLoopOffByOne ==
  /\ pc = "loop"
  /\ IF i <= Len(syntheticData)
       THEN /\ batch' = slice(syntheticData, i, i + batchSize)
            /\ batches' = Append(batches, batch')
            /\ j' = 1
            /\ pc' = IF Len(batch') > 0 THEN "embed" ELSE "forceGC"
            /\ UNCHANGED outcome
       ELSE /\ outcome' = "Done"
            /\ pc' = "close"
            /\ UNCHANGED <<batch, batches, j>>
  /\ UNCHANGED <<envVars, storeVars, exitVars, connected, response, syntheticData,
                 i, vector, gcRuns, errorsLogged, indexErrors, closeRejected, calls>>

BatchLoop ==
  /\ pc = "loop"
  /\ IF i < Len(syntheticData)
       THEN /\ batch' = slice(syntheticData, i, i + batchSize)
            /\ batches' = Append(batches, batch')
            /\ j' = 1
            /\ pc' = IF Len(batch') > 0 THEN "embed" ELSE "forceGC"
            /\ UNCHANGED outcome
       ELSE /\ outcome' = "Done"
            /\ pc' = "close"
            /\ UNCHANGED <<batch, batches, j>>
  /\ UNCHANGED <<envVars, storeVars, exitVars, connected, response, syntheticData,
                 i, vector, gcRuns, errorsLogged, indexErrors, closeRejected, calls>>

\* fromDocuments([record], embeddings, ...): createItemSummary, then the
\* embedding request for the summary of item j of the batch.
EmbedItemSkipsFailure ==
  /\ pc = "embed"
  /\ \E ok \in BOOLEAN :
       /\ Call("embed", i + j, ok)
       /\ IF ok
            THEN /\ vector' = Embed(createItemSummary(batch[j]))
                 /\ pc' = "insert"
                 /\ UNCHANGED j
            ELSE /\ j' = j + 1
                 /\ pc' = IF j < Len(batch) THEN "embed" ELSE "forceGC"
                 /\ UNCHANGED vector
  /\ UNCHANGED <<envVars, storeVars, exitVars, connected, response, syntheticData,
                 i, batch, batches, gcRuns, indexErrors, closeRejected, outcome,
                 errorsLogged>>

EmbedItemWrongRecord ==
  /\ pc = "embed"
  /\ \E ok \in BOOLEAN :
       /\ Call("embed", i + j, ok)
       /\ IF ok
            THEN /\ vector' = Embed(createItemSummary(batch[1]))
                 /\ pc' = "insert"
                 /\ UNCHANGED <<outcome, errorsLogged>>
            ELSE /\ Throw
                 /\ UNCHANGED vector
  /\ UNCHANGED <<envVars, storeVars, exitVars, connected, response, syntheticData,
                 i, batch, j, batches, gcRuns, indexErrors, closeRejected>>

EmbedItemRetries ==
  /\ pc = "embed"
  /\ \E ok \in BOOLEAN :
       /\ Call("embed", i + j, ok)
       /\ IF ok
            THEN /\ vector' = Embed(createItemSummary(batch[j]))
                 /\ pc' = "insert"
            ELSE /\ pc' = "embed"
                 /\ UNCHANGED vector
  /\ UNCHANGED <<envVars, storeVars, exitVars, connected, response, syntheticData,
                 i, batch, j, batches, gcRuns, indexErrors, closeRejected, outcome,
                 errorsLogged>>

EmbedItem ==
  /\ pc = "embed"
  /\ \E ok \in BOOLEAN :
       /\ Call("embed", i + j, ok)
       /\ IF ok
            THEN /\ vector' = Embed(createItemSummary(batch[j]))
                 /\ pc' = "insert"
                 /\ UNCHANGED <<outcome, errorsLogged>>
            ELSE /\ Throw
                 /\ UNCHANGED vector
  /\ UNCHANGED <<envVars, storeVars, exitVars, connected, response, syntheticData,
                 i, batch, j, batches, gcRuns, indexErrors, closeRejected>>

\* fromDocuments: the single write of text, embedding and metadata of item j,
\* then the inner loop advances.
InsertItemSkipsPause ==
  /\ pc = "insert"
  /\ \E ok \in BOOLEAN :
       /\ Call("insert", i + j, ok)
       /\ IF ok
            THEN /\ docs' = Append(docs,
                              WithId([embedding_text |-> createItemSummary(batch[j]),
                                      embedding |-> vector,
                                      metadata |-> batch[j]], nextId))
                 /\ nextId' = nextId + 1
                 /\ j' = j + 1
                 /\ pc' = IF j < Len(batch) THEN "embed" ELSE "loop"
                 /\ i' = IF j < Len(batch) THEN i ELSE i + batchSize
                 /\ UNCHANGED <<outcome, errorsLogged>>
            ELSE /\ Throw
                 /\ UNCHANGED <<docs, nextId, j, i>>
  /\ vector' = NoVector
  /\ UNCHANGED <<envVars, collExists, indexes, searchIndexes, exitVars, connected,
                 response, syntheticData, batch, batches, gcRuns, indexErrors,
                 closeRejected>>

InsertItemUpsertsById ==
  /\ pc = "insert"
  /\ \E ok \in BOOLEAN :
       /\ Call("insert", i + j, ok)
       /\ IF ok
            THEN /\ docs' =
                      (LET new == WithId([embedding_text |-> createItemSummary(batch[j]),
                                          embedding |-> vector,
                                          metadata |-> batch[j]], nextId)
                       IN IF \E m \in DOMAIN docs : docs[m].metadata.item_id = batch[j].item_id
                            THEN [m \in DOMAIN docs |->
                                    IF docs[m].metadata.item_id = batch[j].item_id
                                      THEN new ELSE docs[m]]
                            ELSE Append(docs, new))
                 /\ nextId' = nextId + 1
                 /\ j' = j + 1
                 /\ pc' = IF j < Len(batch) THEN "embed" ELSE "forceGC"
                 /\ UNCHANGED <<outcome, errorsLogged>>
            ELSE /\ Throw
                 /\ UNCHANGED <<docs, nextId, j>>
  /\ vector' = NoVector
  /\ UNCHANGED <<envVars, collExists, indexes, searchIndexes, exitVars, connected,
                 response, syntheticData, i, batch, batches, gcRuns, indexErrors,
                 closeRejected>>

InsertItem ==
  /\ pc = "insert"
  /\ \E ok \in BOOLEAN :
       /\ Call("insert", i + j, ok)
       /\ IF ok
            THEN /\ docs' = Append(docs,
                              WithId([embedding_text |-> createItemSummary(batch[j]),
                                      embedding |-> vector,
                                      metadata |-> batch[j]], nextId))
                 /\ nextId' = nextId + 1
                 /\ j' = j + 1
                 /\ pc' = IF j < Len(batch) THEN "embed" ELSE "forceGC"
                 /\ UNCHANGED <<outcome, errorsLogged>>
            ELSE /\ Throw
                 /\ UNCHANGED <<docs, nextId, j>>
  /\ vector' = NoVector
  /\ UNCHANGED <<envVars, collExists, indexes, searchIndexes, exitVars, connected,
                 response, syntheticData, i, batch, batches, gcRuns, indexErrors,
                 closeRejected>>

\* forceGC(): global.gc() when the runtime exposes it
ForceGCSkipsLastPause ==
  /\ pc = "forceGC"
  /\ gcRuns' = IF gcAvailable THEN gcRuns + 1 ELSE gcRuns
  /\ Call("forceGC", 0, TRUE)
  /\ IF i + batchSize < Len(syntheticData)
       THEN pc' = "pause" /\ UNCHANGED i
       ELSE pc' = "loop" /\ i' = i + batchSize
  /\ UNCHANGED <<envVars, storeVars, exitVars, connected, response, syntheticData,
                 batch, j, batches, vector, indexErrors, closeRejected, outcome,
                 errorsLogged>>

ForceGCOnlyBetweenBatches ==
  /\ pc = "forceGC"
  /\ IF i + batchSize < Len(syntheticData)
       THEN /\ gcRuns' = (IF gcAvailable THEN gcRuns + 1 ELSE gcRuns)
            /\ Call("forceGC", 0, TRUE)
            /\ pc' = "pause"
       ELSE /\ Call("pause", 0, TRUE)
            /\ pc' = "loop"
            /\ UNCHANGED gcRuns
  /\ i' = IF i + batchSize < Len(syntheticData) THEN i ELSE i + batchSize
  /\ UNCHANGED <<envVars, storeVars, exitVars, connected, response, syntheticData,
                 batch, j, batches, vector, indexErrors, closeRejected, outcome,
                 errorsLogged>>

ForceGC ==
  /\ pc = "forceGC"
  /\ gcRuns' = IF gcAvailable THEN gcRuns + 1 ELSE gcRuns
  /\ Call("forceGC", 0, TRUE)
  /\ pc' = "pause"
  /\ UNCHANGED <<envVars, storeVars, exitVars, connected, response, syntheticData,
                 i, batch, j, batches, vector, indexErrors, closeRejected, outcome,
                 errorsLogged>>

\* await new Promise(resolve => setTimeout(resolve, 1000)), then i += batchSize
Pause ==
  /\ pc = "pause"
  /\ Call("pause", 0, TRUE)
  /\ i' = i + batchSize
  /\ pc' = "loop"
  /\ UNCHANGED <<envVars, storeVars, exitVars, connected, response, syntheticData,
                 batch, j, batches, vector, gcRuns, indexErrors, closeRejected,
                 outcome, errorsLogged>>

\* finally { await client.close() }; a rejection reaches seedDatabase().catch
CloseRethrows ==
  /\ pc = "close"
  /\ \E ok \in BOOLEAN :
       /\ Call("close", 0, ok)
       /\ closeRejected' = (~ok \/ outcome = "Failed")
  /\ connected' = FALSE
  /\ pc' = "finished"
  /\ UNCHANGED <<envVars, storeVars, loopVars, exitVars, response, syntheticData,
                 indexErrors, outcome, errorsLogged>>

Close ==
  /\ pc = "close"
  /\ \E ok \in BOOLEAN :
       /\ Call("close", 0, ok)
       /\ closeRejected' = ~ok
  /\ connected' = FALSE
  /\ pc' = "finished"
  /\ UNCHANGED <<envVars, storeVars, loopVars, exitVars, response, syntheticData,
                 indexErrors, outcome, errorsLogged>>

Next ==
  \/ validateEnvironmentVariables
  \/ Connect
  \/ Ping
  \/ ListCollections
  \/ CreateCollection
  \/ DropIndexes
  \/ CreateSearchIndex
  \/ DeleteMany
  \/ GenerateSyntheticData
  \/ BatchLoop
  \/ EmbedItem
  \/ InsertItem
  \/ ForceGC
  \/ Pause
  \/ Close

Spec == Init /\ [][Next]_vars

\* processBatch for every batch size from 1 to MaxBatchSize
InitBatch == InitWith(1..MaxBatchSize)

SpecBatch == InitBatch /\ [][Next]_vars

\* ------------------------------------------------------------ properties
\* ---------------------------------------------------------- console output
Line(text, n, of, id) == [text |-> text, n |-> n, of |-> of, id |-> id]

\* The console lines of processBatch and seedDatabase that carry a count, an
\* item id or the result of the run, written when call c completes: "Processing
\* batch b/k" before the first item of a batch, "Successfully processed & saved
\* record: id" after a write, "Generated N items" after generation.
logLinesBeforeWrite(c, items, size) ==
  IF c.op = "generate" /\ c.ok
    THEN <<Line("Generated items", Len(items), 0, "")>>
  ELSE IF c.op = "embed"
    THEN (IF (c.k - 1) % size = 0
            THEN <<Line("Processing batch", ((c.k - 1) \div size) + 1, Ceil(Len(items), size), "")>>
            ELSE <<>>)
         \o (IF c.ok
               THEN <<Line("Successfully processed & saved record:", 0, 0, items[c.k].item_id.s)>>
               ELSE <<>>)
  ELSE <<>>

logLines(c, items, size) ==
  IF c.op = "generate" /\ c.ok
    THEN <<Line("Generated items", Len(items), 0, "")>>
  ELSE IF c.op = "embed" /\ (c.k - 1) % size = 0
    THEN <<Line("Processing batch", ((c.k - 1) \div size) + 1, Ceil(Len(items), size), "")>>
  ELSE IF c.op = "insert" /\ c.ok
    THEN <<Line("Successfully processed & saved record:", 0, 0, items[c.k].item_id.s)>>
  ELSE <<>>

\* The console output so far, with the closing line of seedDatabase: "Database
\* seeding completed" or "Error seeding database:".
console ==
  Flatten([n \in DOMAIN calls |-> logLines(calls[n], syntheticData, batchSize)])
    \o (IF outcome = "Done" THEN <<Line("Database seeding completed", 0, 0, "")>>
        ELSE IF outcome = "Failed" THEN <<Line("Error seeding database:", 0, 0, "")>>
        ELSE <<>>)

\* setupDatabaseAndCollection invoked a second time, right after its first
\* invocation returned.
SetupAgain ==
  /\ pc = "dropIndexes"
  /\ Cardinality({n \in DOMAIN calls : calls[n].op = "listCollections"}) = 1
  /\ pc' = "listCollections"
  /\ UNCHANGED <<envVars, storeVars, loopVars, exitVars, connected, response,
                 syntheticData, outcome, errorsLogged, indexErrors, closeRejected, calls>>

NextSetup == Next \/ SetupAgain

SpecSetup == Init /\ [][NextSetup]_vars

\* Runs for every batch size from 1 to MaxBatchSize in which every awaited call
\* eventually resolves or rejects, started with global.gc exposed and no
\* 'items' collection yet.
InitFair ==
  /\ InitBatch
  /\ gcAvailable
  /\ ~collExists

SpecFair == InitFair /\ [][Next]_vars /\ WF_vars(Next)

Count(op) == Cardinality({n \in DOMAIN calls : calls[n].op = op})
Has(op) == \E n \in DOMAIN calls : calls[n].op = op
SucceededBefore(op, n) == \E m \in 1..(n - 1) : calls[m].op = op /\ calls[m].ok
ItemOps == {"embed", "insert"}
ItemFailedAt(k) == \E n \in DOMAIN calls : calls[n].op \in ItemOps /\ calls[n].k = k /\ ~calls[n].ok
ItemFailed == \E k \in 1..Len(syntheticData) : ItemFailedAt(k)
InitialIds == {initialDocs[n]._id : n \in DOMAIN initialDocs}
Halted == pc \in {"close", "finished"}

\* C1 (as stated): the clear is issued only after generation has completed.
C1_GenerateBeforeClear ==
  \A n \in DOMAIN calls : calls[n].op = "deleteMany" => SucceededBefore("generate", n)

\* C1 (amended): the clear step completes before the generation step begins,
\* and generation completes before any item is embedded or written: the run
\* passes through Idle, Clearing, Generating, Batching in that order, so the
\* existing documents are already deleted while the candidates are generated.
C1_ClearBeforeGenerate ==
  /\ \A n \in DOMAIN calls :
       /\ calls[n].op = "generate" => SucceededBefore("deleteMany", n)
       /\ calls[n].op \in ItemOps => SucceededBefore("generate", n)
       /\ calls[n].op = "deleteMany" => \A m \in 1..(n - 1) : calls[m].op # "generate"
  /\ pc = "generate" => docs = <<>> /\ Has("deleteMany")
  /\ pc \in {"loop", "embed", "insert", "forceGC", "pause"} => Has("generate")

C1_Witness == pc = "generate" /\ Len(initialDocs) = 2 /\ docs = <<>>

\* C2: if the embedding call or the write of item k fails, the documents of
\* items 1..k-1 are in the collection, none exists for item k, no later item
\* is embedded or written, and the run is Failed.
C2_FailurePropagation ==
  \A k \in 1..Len(syntheticData) :
    ItemFailedAt(k) =>
      /\ outcome = "Failed"
      /\ Halted
      /\ Len(docs) = k - 1
      /\ \A m \in 1..(k - 1) :
           /\ Content(docs[m]) = StoredDocument(syntheticData[m])
           /\ docs[m]._id \notin InitialIds
      /\ \A n \in DOMAIN calls : calls[n].op \in ItemOps => calls[n].k <= k

C2_Witness ==
  /\ pc = "finished"
  /\ Len(syntheticData) = 4
  /\ \E n \in DOMAIN calls : calls[n] = [op |-> "embed", k |-> 2, ok |-> FALSE]
  /\ Len(docs) = 1
  /\ Len(initialDocs) = 0

\* C3: past configuration validation the connection is opened at most once
\* and closed exactly once, as the last call of the run, whether the run is
\* Done or Failed.
C3_CloseOnce ==
  /\ Count("connect") <= 1
  /\ Count("close") <= 1
  /\ \A n \in DOMAIN calls : calls[n].op = "close" => n = Len(calls)
  /\ pc = "finished" => Count("close") = 1 /\ ~connected /\ outcome \in {"Done", "Failed"}
  /\ pc \notin {"validate", "exited", "finished"} => Count("close") = 0

C3_Witness ==
  /\ pc = "finished"
  /\ outcome = "Failed"
  /\ \E n \in DOMAIN calls : calls[n].op = "insert" /\ ~calls[n].ok
  /\ calls[Len(calls)].op = "close"

\* C4: after a run that ends Done the collection holds exactly one Stored
\* Document per generated Record and no document from before the run.
C4_FullReplace ==
  (pc = "finished" /\ outcome = "Done") =>
    /\ Len(docs) = Len(syntheticData)
    /\ \A m \in DOMAIN docs :
         /\ Content(docs[m]) = StoredDocument(syntheticData[m])
         /\ docs[m]._id \notin InitialIds
         /\ \A o \in DOMAIN initialDocs : docs[m] # initialDocs[o]

C4_Witness ==
  /\ pc = "finished"
  /\ outcome = "Done"
  /\ Len(initialDocs) = 2
  /\ Len(docs) = 4
  /\ [b \in DOMAIN batches |-> Len(batches[b])] = <<3, 1>>

\* C5: for record-set length L and batch size B the loop forms ceil(L/B)
\* batches, each of B records except possibly the last (1..B records), whose
\* concatenation in order is the record sequence.
C5_Partition ==
  /\ Len(batches) <= Ceil(Len(syntheticData), batchSize)
  /\ \A b \in DOMAIN batches :
       /\ Len(batches[b]) \in 1..batchSize
       /\ b < Ceil(Len(syntheticData), batchSize) => Len(batches[b]) = batchSize
  /\ Flatten(batches) = SubSeq(syntheticData, 1, Len(Flatten(batches)))
  /\ outcome = "Done" =>
       /\ Len(batches) = Ceil(Len(syntheticData), batchSize)
       /\ Flatten(batches) = syntheticData

C5_Witness ==
  /\ outcome = "Done"
  /\ batchSize = 2
  /\ Len(syntheticData) = 3
  /\ [b \in DOMAIN batches |-> Len(batches[b])] = <<2, 1>>

\* C6: if the generation step fails the run is Failed and nothing is
\* summarized, embedded or written in that run.
GenerationFailed == \E n \in DOMAIN calls : calls[n].op = "generate" /\ ~calls[n].ok

C6_GenerationFailure ==
  GenerationFailed =>
    /\ outcome = "Failed"
    /\ Halted
    /\ ~Has("embed") /\ ~Has("insert")
    /\ docs = <<>>
    /\ nextId = Len(initialDocs) + 1
    /\ batches = <<>>

C6_Witness ==
  /\ pc = "finished"
  /\ GenerationFailed
  /\ response.isArray
  /\ Len(response.elems) = 2
  /\ response.elems[1] = GoodA

\* C7 (as stated): every batch that was started is followed by the pause.
C7_PauseAfterEveryBatch == pc = "finished" => Count("pause") = Len(batches)

\* C7 (amended): every batch all of whose items were written is followed by
\* the reclamation request and the fixed pause, the last batch included; a
\* batch in which an embedding or a write fails is followed by no pause, only
\* by the connection close.
EndsBatch(k) == k % batchSize = 0 \/ k = Len(syntheticData)

C7_PauseAfterCompletedBatch ==
  /\ \A n \in DOMAIN calls :
       /\ (calls[n].op \in ItemOps /\ ~calls[n].ok /\ n < Len(calls)) =>
            calls[n + 1].op = "close"
       /\ (calls[n].op = "insert" /\ calls[n].ok /\ EndsBatch(calls[n].k)) =>
            /\ n + 1 <= Len(calls) => calls[n + 1].op = "forceGC"
            /\ n + 2 <= Len(calls) => calls[n + 2].op = "pause"
            /\ Halted => n + 2 <= Len(calls)
       /\ calls[n].op = "pause" =>
            /\ n > 2
            /\ calls[n - 1].op = "forceGC"
            /\ calls[n - 2].op = "insert" /\ calls[n - 2].ok /\ EndsBatch(calls[n - 2].k)
  /\ pc = "finished" =>
       Count("pause") = (IF ItemFailed THEN Len(batches) - 1 ELSE Len(batches))

C7_Witness ==
  /\ pc = "finished"
  /\ outcome = "Failed"
  /\ Len(batches) = 2
  /\ Count("pause") = 1
  /\ ItemFailedAt(4)

\* C8: a generation response containing a malformed candidate (a required
\* field missing, a field of the wrong type, a negative full or sale price)
\* is rejected, and no Stored Document is produced from such a record.
HasNegativePrice(c) ==
  \/ IsNumber(c.prices.full_price) /\ c.prices.full_price.n < 0
  \/ IsNumber(c.prices.sale_price) /\ c.prices.sale_price.n < 0

Malformed(c) == c = MissingField \/ c = WrongType \/ HasNegativePrice(c)

C8_MalformedRejected ==
  /\ (response.isArray /\ \E n \in DOMAIN response.elems : Malformed(response.elems[n])) =>
       /\ syntheticData = <<>>
       /\ \A n \in DOMAIN calls : calls[n].op = "generate" => ~calls[n].ok
  /\ \A m \in DOMAIN docs : ~Malformed(docs[m].metadata)

\* C9: if a required setting is missing the process exits with a non-zero
\* status, the diagnostic lists exactly the missing settings, and nothing else
\* is attempted.
MissingSettings == {v \in DOMAIN env : Falsy(env[v])}

C9_MissingSettingsExit ==
  MissingSettings # {} =>
    /\ pc \in {"validate", "exited"}
    /\ calls = <<>>
    /\ ~connected
    /\ docs = initialDocs
    /\ pc = "exited" =>
         /\ exitCode # 0 /\ exitCode = ExitFailure
         /\ {diagnostic[n] : n \in DOMAIN diagnostic} = MissingSettings
         /\ Len(diagnostic) = Cardinality(MissingSettings)

C9_Witness ==
  /\ pc = "exited"
  /\ env["MONGODB_ATLAS_URI"] = "set"
  /\ env["GOOGLE_API_KEY"] = "absent"
  /\ diagnostic = <<"GOOGLE_API_KEY">>

\* C10: a failure of dropIndexes or createSearchIndex is caught and logged in
\* createVectorSearchIndex and does not abort the run: the next call is the
\* clear, and the run is Failed only if a later call fails.
IndexOps == {"dropIndexes", "createSearchIndex"}
IndexFailedAt(n) == calls[n].op \in IndexOps /\ ~calls[n].ok

C10_IndexFailureSwallowed ==
  \A n \in DOMAIN calls :
    IndexFailedAt(n) =>
      /\ indexErrors = 1
      /\ n < Len(calls) => calls[n + 1].op = "deleteMany"
      /\ n = Len(calls) => pc = "deleteMany" /\ outcome = "Running"
      /\ outcome = "Failed" =>
           \E m \in (n + 1)..Len(calls) : ~calls[m].ok /\ calls[m].op # "close"
      /\ errorsLogged = Cardinality({m \in (n + 1)..Len(calls) :
                                       ~calls[m].ok /\ calls[m].op # "close"})

C10_Witness ==
  /\ pc = "finished"
  /\ outcome = "Done"
  /\ indexErrors = 1
  /\ IndexFailedAt(5)
  /\ Len(docs) = 4

\* C11: in every reachable state every Stored Document carries the Summary of
\* its own Record and the embedding of that Summary (768 dimensions); an item
\* whose embedding call or write failed has no document.
C11_AtomicItemWrite ==
  /\ \A m \in DOMAIN docs :
       /\ docs[m].embedding_text = createItemSummary(docs[m].metadata)
       /\ docs[m].embedding = Embed(docs[m].embedding_text)
       /\ docs[m].embedding.numDimensions = NumDimensions
  /\ \A k \in 1..Len(syntheticData) :
       ItemFailedAt(k) =>
         /\ Len(docs) < k
         /\ \A n \in DOMAIN calls : ~(calls[n].op = "insert" /\ calls[n].k = k /\ calls[n].ok)

C11_Witness ==
  /\ pc = "finished"
  /\ Len(docs) = 2
  /\ docs[1].metadata = GoodA
  /\ docs[2].metadata = GoodB
  /\ \E n \in DOMAIN calls : calls[n] = [op |-> "insert", k |-> 3, ok |-> FALSE]

\* C12 (as stated): after a failure inside seedDatabase the error is logged
\* once and seedDatabase completes normally to its caller.
FailedCalls == {n \in DOMAIN calls : ~calls[n].ok /\ calls[n].op \notin IndexOps \cup {"close"}}

C12_CompletesNormally ==
  (pc = "finished" /\ outcome = "Failed") => (errorsLogged = 1 /\ ~closeRejected)

\* C12 (amended): a failure of connect, ping, collection setup, clear,
\* generation, embedding or write is caught once, logged once and not
\* re-raised; the only further call is the connection close, and seedDatabase
\* rejects to its caller only if that close itself rejects.
C12_CaughtOnce ==
  /\ Cardinality(FailedCalls) <= 1
  /\ errorsLogged = Cardinality(FailedCalls)
  /\ (outcome = "Failed") = (FailedCalls # {})
  /\ \A n \in FailedCalls :
       /\ Halted
       /\ n < Len(calls) => (n + 1 = Len(calls) /\ calls[n + 1].op = "close")
  /\ pc = "finished" => closeRejected = ~calls[Len(calls)].ok
  /\ pc # "finished" => ~closeRejected

C12_Witness ==
  /\ pc = "finished"
  /\ outcome = "Failed"
  /\ errorsLogged = 1
  /\ ~closeRejected
  /\ \E n \in DOMAIN calls : calls[n] = [op |-> "deleteMany", k |-> 0, ok |-> FALSE]

\* C13: the calls of a run are strictly sequential: the embedding of item k is
\* requested only after the write of item k-1 has completed (and, when item
\* k-1 closed a batch, after that batch's pause has ended), the write of item
\* k only after its own embedding, and an embedding awaits its write only
\* while that write is the current step.
IsCall(n, op, k, ok) == n \in DOMAIN calls /\ calls[n] = [op |-> op, k |-> k, ok |-> ok]

C13_Sequential ==
  /\ \A n \in DOMAIN calls :
       /\ (calls[n].op = "embed" /\ calls[n].k = 1) =>
            (n > 1 /\ calls[n - 1].op = "generate" /\ calls[n - 1].ok)
       /\ (calls[n].op = "embed" /\ calls[n].k > 1) =>
            IF (calls[n].k - 1) % batchSize = 0
              THEN /\ IsCall(n - 1, "pause", 0, TRUE)
                   /\ IsCall(n - 2, "forceGC", 0, TRUE)
                   /\ IsCall(n - 3, "insert", calls[n].k - 1, TRUE)
              ELSE IsCall(n - 1, "insert", calls[n].k - 1, TRUE)
       /\ calls[n].op = "insert" => IsCall(n - 1, "embed", calls[n].k, TRUE)
       /\ n < Len(calls) => (calls[n].ok \/ calls[n].op \in IndexOps \/ calls[n + 1].op = "close")
  /\ vector # NoVector => (pc = "insert" /\ IsCall(Len(calls), "embed", i + j, TRUE))

C13_Witness ==
  /\ pc = "insert"
  /\ i + j = 4
  /\ Len(docs) = 3
  /\ \E n \in DOMAIN calls : calls[n].op = "pause"

\* C14: no call is retried: the generation request and the clear are issued
\* at most once, the embedding and the write at most once per Record position,
\* and a call that failed is never issued again.
C14_NoRetry ==
  /\ Count("generate") <= 1
  /\ Count("deleteMany") <= 1
  /\ \A n \in DOMAIN calls : \A m \in (n + 1)..Len(calls) :
       /\ (calls[n].op \in ItemOps /\ calls[n].k = calls[m].k) => calls[m].op # calls[n].op
       /\ ~calls[n].ok => calls[m].op # calls[n].op

C14_Witness ==
  /\ pc = "finished"
  /\ Count("embed") = 2
  /\ \E n \in DOMAIN calls : calls[n] = [op |-> "embed", k |-> 2, ok |-> FALSE]

\* C15 (as stated): at the end of a run the console reports the total of items
\* generated and a total of items processed equal to the number of documents
\* inserted during the run.
Lines(text) == {n \in DOMAIN console : console[n].text = text}
Inserted == Cardinality({n \in DOMAIN calls : calls[n].op = "insert" /\ calls[n].ok})
ReportsTotal(l) == ~(l.text \in {"Processing batch", "Successfully processed & saved record:",
                                "Database seeding completed", "Error seeding database:"})

IsSuccessLine(l) == l.text = "Successfully processed & saved record:"
IsGeneratedLine(l) == l.text = "Generated items"

C16_FailedRunLeavesEmpty ==
  (pc = "finished" /\ GenerationFailed) =>
    /\ \E n \in DOMAIN calls : calls[n].op = "deleteMany" /\ calls[n].ok
    /\ docs = <<>>
    /\ \A o \in DOMAIN initialDocs : \A m \in DOMAIN docs : docs[m]._id # initialDocs[o]._id
    /\ Inserted = 0
    /\ outcome = "Failed"

C16_Witness ==
  /\ pc = "finished"
  /\ GenerationFailed
  /\ Len(initialDocs) = 2
  /\ docs = <<>>
  /\ response.isArray /\ Len(response.elems) = 1 /\ response.elems[1] = WrongType

\* C17: in a run without failures every batch is followed by exactly one
\* memory-reclamation request and then exactly one pause, the final batch
\* included: k batches give k requests and k pauses, each pair right after the
\* last write of its batch, and no pause falls inside a batch.
C17_ReclaimThenPause ==
  /\ \A n \in DOMAIN calls :
       /\ calls[n].op = "forceGC" =>
            /\ n > 1 /\ calls[n - 1].op = "insert" /\ calls[n - 1].ok /\ EndsBatch(calls[n - 1].k)
            /\ n < Len(calls) => calls[n + 1].op = "pause"
       /\ calls[n].op = "pause" => (n > 1 /\ calls[n - 1].op = "forceGC")
       /\ (calls[n].op = "insert" /\ calls[n].ok /\ ~EndsBatch(calls[n].k) /\ n < Len(calls)) =>
            calls[n + 1].op = "embed"
  /\ gcRuns = (IF gcAvailable THEN Count("forceGC") ELSE 0)
  /\ outcome = "Done" =>
       /\ Count("forceGC") = Ceil(Len(syntheticData), batchSize)
       /\ Count("pause") = Ceil(Len(syntheticData), batchSize)
       /\ Count("pause") = Len(batches)

C17_Witness ==
  /\ outcome = "Done"
  /\ batchSize = 2
  /\ Len(syntheticData) = 4
  /\ Count("forceGC") = 2
  /\ Count("pause") = 2
  /\ gcAvailable /\ gcRuns = 2

\* C18: setupDatabaseAndCollection issues createCollection only when 'items'
\* is absent; after it succeeds the collection exists; invoked twice in a row
\* it creates at most once and leaves the store as one invocation leaves it.
StoreAfterSetup ==
  /\ collExists
  /\ docs = initialDocs
  /\ nextId = Len(initialDocs) + 1
  /\ \E st \in InitialStores :
       st.docs = initialDocs /\ st.indexes = indexes /\ st.searchIndexes = searchIndexes

C18_SetupIdempotent ==
  /\ pc = "createCollection" => ~collExists
  /\ \A n \in DOMAIN calls :
       calls[n].op = "createCollection" =>
         /\ IsCall(n - 1, "listCollections", 0, TRUE)
         /\ \A m \in 1..(n - 1) : calls[m].op # "createCollection"
         /\ Cardinality({m \in 1..n : calls[m].op = "listCollections"}) = 1
  /\ pc = "dropIndexes" => StoreAfterSetup
  /\ pc \in {"createSearchIndex", "deleteMany", "generate", "loop", "embed", "insert",
             "forceGC", "pause"} => collExists

C18_Witness ==
  /\ pc = "dropIndexes"
  /\ Count("listCollections") = 2
  /\ Count("createCollection") = 1
  /\ StoreAfterSetup

\* C19: after the clear the collection holds exactly the documents of the
\* first n generated Records, one per position in generation order (also when
\* Records share an id), and n never decreases.
Cleared == \E n \in DOMAIN calls : calls[n].op = "deleteMany" /\ calls[n].ok

PersistedPrefix ==
  /\ Len(docs) <= Len(syntheticData)
  /\ \A m \in DOMAIN docs :
       /\ Content(docs[m]) = StoredDocument(syntheticData[m])
       /\ \A o \in DOMAIN docs : docs[o]._id = docs[m]._id => o = m

C19_PersistedPrefix ==
  /\ [](Cleared => PersistedPrefix)
  /\ [][Cleared => Len(docs') >= Len(docs)]_vars

C19_Witness ==
  /\ Cleared
  /\ Len(docs) = 3
  /\ docs[1].metadata = GoodA
  /\ docs[2].metadata = NegativePrice
  /\ docs[3].metadata = GoodA

\* C20: provided every call eventually returns or fails, a run that starts
\* reaches Done or Failed and the connection close, after at most ceil(L/B)
\* batches and at most L embeddings and L writes; with L = 0 no batch is
\* processed, no pause occurs and the run ends Done.
WithinBounds ==
  /\ Len(batches) <= Ceil(Len(syntheticData), batchSize)
  /\ Count("embed") <= Len(syntheticData)
  /\ Count("insert") <= Len(syntheticData)
  /\ Count("pause") <= Ceil(Len(syntheticData), batchSize)
  /\ (Has("generate") /\ ~GenerationFailed /\ Len(syntheticData) = 0) =>
       /\ batches = <<>>
       /\ Count("pause") = 0
       /\ outcome # "Failed"
       /\ pc = "finished" => outcome = "Done"

C20_Terminates ==
  /\ (pc = "connect") ~> (pc = "finished" /\ outcome \in {"Done", "Failed"}
                           /\ calls[Len(calls)].op = "close")
  /\ []WithinBounds

C20_Witness ==
  /\ pc = "finished"
  /\ outcome = "Done"
  /\ Has("generate")
  /\ Len(syntheticData) = 0
  /\ Count("pause") = 0
  /\ batchSize = 2
====
